---- MODULE Spec2Model ----
(***************************************************************************)
(* MetricsCollector (src/message.py): a SQLite table of increment events,  *)
(* written under a threading.Lock by increment and read without the lock   *)
(* by get_names and get_data, which buckets the last 24 hours of one name  *)
(* into 300-second slots.                                                  *)
(*                                                                         *)
(* Each thread runs one call at a time.  A step of the model is one access *)
(* to shared state (the clock, the lock, the table) together with the      *)
(* thread-local code that follows it.  The wall clock is taken to be       *)
(* non-decreasing.  Names are sequences of character codes so that         *)
(* ORDER BY can be modelled as SQLite's byte-wise comparison.  An          *)
(* sqlite3.Error is modelled where the claims speak of one, in increment's *)
(* write; the two reading calls always get their rows.                     *)
(***************************************************************************)
EXTENDS Integers, Sequences, FiniteSets

\* ---------------------------------------------------------------- bounds
MaxCalls == 2
MaxTicks == 1

\* ------------------------------------------------------ program constants
BUCKET_WIDTH == 300
WINDOW == 86400

\* ------------------------------------------------------------ input sets
Threads == {1, 2}
\* "ab" and "b"
Names == {<<97, 98>>, <<98>>}
\* the (name, count) arguments the callers of increment pass: a positive, a
\* negative and a zero count
IncrementArgs == {<<<<97, 98>>, 5>>, <<<<97, 98>>, -5>>, <<<<98>>, 0>>}
\* the clock advances by a second between two steps
TickSteps == {1}
\* one second before a bucket boundary
StartTime == 2 * WINDOW - 1
\* what an earlier run of the process may have left in metrics.db: at
\* StartTime, two events just older than 24 hours, one exactly 24 hours old in
\* the same bucket as those, and one of the previous second
OldEvents ==
    << [name |-> <<98>>, timestamp |-> StartTime - WINDOW - 1, count |-> 5],
       [name |-> <<97, 98>>, timestamp |-> StartTime - WINDOW - 1, count |-> 5],
       [name |-> <<97, 98>>, timestamp |-> StartTime - WINDOW, count |-> 5],
       [name |-> <<97, 98>>, timestamp |-> StartTime - 1, count |-> 5] >>
InitStores == {<<>>, OldEvents}
\* metrics.db as the constructor finds it: no table yet, or a table with rows
DbFiles ==
    {[exists |-> FALSE, rows |-> <<>>]}
        \cup {[exists |-> TRUE, rows |-> st] : st \in InitStores}

VARIABLES
    clock,      \* time.time(), whole seconds
    ticks,      \* how often the clock has advanced
    store,      \* the rows of table metrics, in id order (id = index)
    lock,       \* self.lock: TRUE when held
    pc,         \* per thread: where its current call stands
    op,         \* per thread: the call it runs or ran last
    outcome,    \* per thread: "none" | "ok" | "raised" for the call in op
    argName,    \* per thread: the name argument
    argCount,   \* per thread: the count argument of increment
    timestamp,  \* per thread: increment's local timestamp
    end_time,   \* per thread: get_data's local end_time
    rows,       \* per thread: get_data's fetched rows
    result,     \* per thread: the list get_data or get_names handed back
    started,    \* per thread: number of rows whose increment had returned (or that
                \* were there at process start) when the call started
    seen,       \* per thread: number of rows committed when its SELECT ran
    acks,       \* number of increments that have returned normally
    base,       \* number of rows the table held at process start
    calls       \* number of calls started

vars == <<clock, ticks, store, lock, pc, op, outcome, argName, argCount,
          timestamp, end_time, rows, result, started, seen, acks, base, calls>>

shared == <<clock, ticks, store, lock, acks, base>>
locals == <<argName, argCount, timestamp, end_time, rows, result, started, seen>>

NoName == <<>>

\* init_db as DROP TABLE and CREATE TABLE
InitDbRecreates(db) == [exists |-> TRUE, rows |-> <<>>]

\* lines 23-34: CREATE TABLE IF NOT EXISTS metrics (...); commit
InitDbOn(db) == IF db.exists THEN db ELSE [exists |-> TRUE, rows |-> <<>>]

\* lines 17-20: the constructor runs init_db on the file it finds
Init ==
    /\ clock = StartTime
    /\ ticks = 0
    /\ store \in {InitDbOn(db).rows : db \in DbFiles}
    /\ lock = FALSE
    /\ pc = [t \in Threads |-> "idle"]
    /\ op = [t \in Threads |-> "none"]
    /\ outcome = [t \in Threads |-> "none"]
    /\ argName = [t \in Threads |-> NoName]
    /\ argCount = [t \in Threads |-> 0]
    /\ timestamp = [t \in Threads |-> 0]
    /\ end_time = [t \in Threads |-> 0]
    /\ rows = [t \in Threads |-> <<>>]
    /\ result = [t \in Threads |-> <<>>]
    /\ started = [t \in Threads |-> 0]
    /\ seen = [t \in Threads |-> 0]
    /\ acks = 0
    /\ base = Len(store)
    /\ calls = 0

\* ------------------------------------------------------------- the clock
Tick ==
    /\ ticks < MaxTicks
    /\ \E d \in TickSteps : clock' = clock + d
    /\ ticks' = ticks + 1
    /\ UNCHANGED <<store, lock, pc, op, outcome, acks, base, calls>>
    /\ UNCHANGED locals

\* A call begins: the locals of the thread's previous call are gone.
Begin(t, o, n, c) ==
    /\ pc[t] = "idle"
    /\ calls < MaxCalls
    /\ calls' = calls + 1
    /\ op' = [op EXCEPT ![t] = o]
    /\ argName' = [argName EXCEPT ![t] = n]
    /\ argCount' = [argCount EXCEPT ![t] = c]
    /\ rows' = [rows EXCEPT ![t] = <<>>]
    /\ started' = [started EXCEPT ![t] = base + acks]

\* ... and nothing has come back from the new one yet.
Pending(t) ==
    /\ outcome' = [outcome EXCEPT ![t] = "none"]
    /\ result' = [result EXCEPT ![t] = <<>>]
    /\ seen' = [seen EXCEPT ![t] = 0]

\* --------------------------------------------------------------- init_db
\* lines 22-34, run again on the table of the running process (by a second
\* MetricsCollector() or by a call of the method)
InitDb(t) ==
    /\ Begin(t, "init_db", NoName, 0)
    /\ store' = InitDbOn([exists |-> TRUE, rows |-> store]).rows
    /\ timestamp' = [timestamp EXCEPT ![t] = 0]
    /\ end_time' = [end_time EXCEPT ![t] = 0]
    /\ result' = [result EXCEPT ![t] = <<>>]
    /\ seen' = [seen EXCEPT ![t] = 0]
    /\ outcome' = [outcome EXCEPT ![t] = "ok"]
    /\ UNCHANGED <<clock, ticks, lock, acks, base, pc>>

\* ------------------------------------------------------------- increment
\* line 37: timestamp = int(time.time())
IncrementCall(t) ==
    \E a \in IncrementArgs :
        /\ Begin(t, "increment", a[1], a[2])
        /\ Pending(t)
        /\ timestamp' = [timestamp EXCEPT ![t] = clock]
        /\ end_time' = [end_time EXCEPT ![t] = 0]
        /\ pc' = [pc EXCEPT ![t] = "acquire"]
        /\ UNCHANGED shared

\* the acquire that does not wait for the lock
IncrementAcquireNoWait(t) ==
    /\ pc[t] = "acquire"
    /\ lock' = TRUE
    /\ pc' = [pc EXCEPT ![t] = "write"]
    /\ UNCHANGED <<clock, ticks, store, acks, base, calls, op, outcome>>
    /\ UNCHANGED locals

\* line 38: self.lock.acquire() blocks while the lock is held
IncrementAcquire(t) ==
    /\ pc[t] = "acquire"
    /\ lock = FALSE
    /\ lock' = TRUE
    /\ pc' = [pc EXCEPT ![t] = "write"]
    /\ UNCHANGED <<clock, ticks, store, acks, base, calls, op, outcome>>
    /\ UNCHANGED locals

\* An exception leaves increment at once: nothing after the raising line runs.
Raise(t) ==
    /\ pc' = [pc EXCEPT ![t] = "idle"]
    /\ outcome' = [outcome EXCEPT ![t] = "raised"]

\* the count argument not passed on: the column's DEFAULT 1 is stored
NewRowDefaultCount(t) == [name |-> argName[t], timestamp |-> timestamp[t], count |-> 1]

\* line 42: the values bound to the INSERT
NewRow(t) == [name |-> argName[t], timestamp |-> timestamp[t], count |-> argCount[t]]

\* the write as a replacement of the newest row (a lost update)
IncrementWriteOverwrites(t) ==
    /\ pc[t] = "write"
    /\ \/ /\ store' = IF Len(store) > base
                      THEN [store EXCEPT ![Len(store)] = NewRow(t)]
                      ELSE Append(store, NewRow(t))
          /\ pc' = [pc EXCEPT ![t] = "release"]
          /\ UNCHANGED outcome
       \/ /\ pc' = [pc EXCEPT ![t] = "idle"]
          /\ outcome' = [outcome EXCEPT ![t] = "raised"]
          /\ UNCHANGED store
    /\ UNCHANGED <<clock, ticks, lock, acks, base, calls, op>>
    /\ UNCHANGED locals

\* the write with a failing commit that leaves its row behind
IncrementWriteKeepsFailed(t) ==
    /\ pc[t] = "write"
    /\ \/ /\ store' = Append(store, NewRow(t))
          /\ pc' = [pc EXCEPT ![t] = "release"]
          /\ UNCHANGED outcome
       \/ /\ pc' = [pc EXCEPT ![t] = "idle"]
          /\ outcome' = [outcome EXCEPT ![t] = "raised"]
          /\ store' = Append(store, NewRow(t))
    /\ UNCHANGED <<clock, ticks, lock, acks, base, calls, op>>
    /\ UNCHANGED locals

\* the write that puts its row in front of the others
IncrementWriteFirst(t) ==
    /\ pc[t] = "write"
    /\ \/ /\ store' = <<NewRow(t)>> \o store
          /\ pc' = [pc EXCEPT ![t] = "release"]
          /\ UNCHANGED outcome
       \/ /\ pc' = [pc EXCEPT ![t] = "idle"]
          /\ outcome' = [outcome EXCEPT ![t] = "raised"]
          /\ UNCHANGED store
    /\ UNCHANGED <<clock, ticks, lock, acks, base, calls, op>>
    /\ UNCHANGED locals

\* the write that also deletes the rows older than 24 hours
IncrementWritePrunes(t) ==
    /\ pc[t] = "write"
    /\ \/ /\ store' = Append(SelectSeq(store, LAMBDA r : r.timestamp >= clock - WINDOW),
                             NewRow(t))
          /\ pc' = [pc EXCEPT ![t] = "release"]
          /\ UNCHANGED outcome
       \/ /\ pc' = [pc EXCEPT ![t] = "idle"]
          /\ outcome' = [outcome EXCEPT ![t] = "raised"]
          /\ UNCHANGED store
    /\ UNCHANGED <<clock, ticks, lock, acks, base, calls, op>>
    /\ UNCHANGED locals

\* lines 39-43: connect, cursor, INSERT, commit.  The row becomes visible at
\* the commit; an sqlite3.Error from any of the four lines leaves the table
\* as it was (the open transaction is rolled back with the connection).
IncrementWrite(t) ==
    /\ pc[t] = "write"
    /\ \/ /\ store' = Append(store, NewRow(t))
          /\ pc' = [pc EXCEPT ![t] = "release"]
          /\ UNCHANGED outcome
       \/ /\ Raise(t)
          /\ UNCHANGED store
    /\ UNCHANGED <<clock, ticks, lock, acks, base, calls, op>>
    /\ UNCHANGED locals

\* lines 44-45: conn.close(); self.lock.release(); return
IncrementRelease(t) ==
    /\ pc[t] = "release"
    /\ lock' = FALSE
    /\ pc' = [pc EXCEPT ![t] = "idle"]
    /\ outcome' = [outcome EXCEPT ![t] = "ok"]
    /\ acks' = acks + 1
    /\ UNCHANGED <<clock, ticks, store, base, calls, op>>
    /\ UNCHANGED locals

\* ------------------------------------------------------------- get_names
\* ORDER BY name under SQLite's BINARY collation: the first differing byte
\* decides, and a proper prefix sorts first.
RECURSIVE NameLess(_, _)
NameLess(a, b) ==
    IF b = <<>> THEN FALSE
    ELSE IF a = <<>> THEN TRUE
    ELSE IF Head(a) # Head(b) THEN Head(a) < Head(b)
    ELSE NameLess(Tail(a), Tail(b))

\* SELECT DISTINCT name FROM metrics
DistinctNames(st) == {st[i].name : i \in 1..Len(st)}

RECURSIVE OrderByName(_)
OrderByName(S) ==
    IF S = {} THEN <<>>
    ELSE LET m == CHOOSE x \in S : \A y \in S : y = x \/ NameLess(x, y)
         IN <<m>> \o OrderByName(S \ {m})

\* the query without DISTINCT
RECURSIVE InsertName(_, _)
InsertName(n, sorted) ==
    IF sorted = <<>> THEN <<n>>
    ELSE IF NameLess(Head(sorted), n) THEN <<Head(sorted)>> \o InsertName(n, Tail(sorted))
    ELSE <<n>> \o sorted

RECURSIVE SelectNamesNoDistinct(_)
SelectNamesNoDistinct(st) ==
    IF st = <<>> THEN <<>>
    ELSE InsertName(Head(st).name, SelectNamesNoDistinct(Tail(st)))

\* lines 50-55: the query and the loop that copies row[0] into names
SelectNames(st) == OrderByName(DistinctNames(st))

\* get_names that counts its own calls as a metric
GetNamesLogsItself(t) ==
    /\ Begin(t, "get_names", NoName, 0)
    /\ timestamp' = [timestamp EXCEPT ![t] = 0]
    /\ end_time' = [end_time EXCEPT ![t] = 0]
    /\ result' = [result EXCEPT ![t] = SelectNames(store)]
    /\ seen' = [seen EXCEPT ![t] = Len(store)]
    /\ outcome' = [outcome EXCEPT ![t] = "ok"]
    /\ store' = Append(store, [name |-> <<98>>, timestamp |-> clock, count |-> 1])
    /\ UNCHANGED <<clock, ticks, lock, acks, base, pc>>

\* lines 48-55: the SELECT is the call's only access to shared state
GetNames(t) ==
    /\ Begin(t, "get_names", NoName, 0)
    /\ timestamp' = [timestamp EXCEPT ![t] = 0]
    /\ end_time' = [end_time EXCEPT ![t] = 0]
    /\ result' = [result EXCEPT ![t] = SelectNames(store)]
    /\ seen' = [seen EXCEPT ![t] = Len(store)]
    /\ outcome' = [outcome EXCEPT ![t] = "ok"]
    /\ UNCHANGED pc
    /\ UNCHANGED shared

\* -------------------------------------------------------------- get_data
\* line 69
BucketOf(ts) == (ts \div BUCKET_WIDTH) * BUCKET_WIDTH

\* the query without its name condition
RECURSIVE SelectRowsAnyName(_, _, _)
SelectRowsAnyName(st, name, start_time) ==
    IF st = <<>> THEN <<>>
    ELSE LET r == Head(st)
             rest == SelectRowsAnyName(Tail(st), name, start_time)
         IN IF r.timestamp >= start_time
            THEN <<[timestamp |-> r.timestamp, count |-> r.count]>> \o rest
            ELSE rest

\* lines 62-64: SELECT timestamp, count ... WHERE name = ? AND timestamp >= ?
RECURSIVE SelectRows(_, _, _)
SelectRows(st, name, start_time) ==
    IF st = <<>> THEN <<>>
    ELSE LET r == Head(st)
             rest == SelectRows(Tail(st), name, start_time)
         IN IF r.name = name /\ r.timestamp >= start_time
            THEN <<[timestamp |-> r.timestamp, count |-> r.count]>> \o rest
            ELSE rest

\* the fold that leaves out negative counts
AddRowNonNegative(buckets, bucket, count) ==
    LET c == IF count < 0 THEN 0 ELSE count
    IN IF bucket \in DOMAIN buckets
       THEN [buckets EXCEPT ![bucket] = buckets[bucket] + c]
       ELSE [b \in DOMAIN buckets \cup {bucket} |->
               IF b = bucket THEN c ELSE buckets[b]]

\* lines 70-73: one row folded into the dict (a function on its keys)
AddRow(buckets, bucket, count) ==
    IF bucket \in DOMAIN buckets
    THEN [buckets EXCEPT ![bucket] = buckets[bucket] + count]
    ELSE [b \in DOMAIN buckets \cup {bucket} |->
            IF b = bucket THEN count ELSE buckets[b]]

\* lines 67-73
RECURSIVE FoldRows(_, _)
FoldRows(rws, buckets) ==
    IF rws = <<>> THEN buckets
    ELSE FoldRows(Tail(rws),
                  AddRow(buckets, BucketOf(Head(rws).timestamp), Head(rws).count))

\* the loop with < for <=
WalkGoesOnStrict(current, end) == current < end

\* line 77: while current <= end_time
WalkGoesOn(current, end) == current <= end

\* the entry with -1 for a bucket without events
EntryMissingIsMinusOne(buckets, current) ==
    [timestamp |-> current,
     count |-> IF current \in DOMAIN buckets THEN buckets[current] ELSE -1]

\* lines 78-81: the entry appended for one value of current
Entry(buckets, current) ==
    [timestamp |-> current,
     count |-> IF current \in DOMAIN buckets THEN buckets[current] ELSE 0]

\* lines 77-82, at most n iterations of the loop
RECURSIVE WalkSome(_, _, _, _)
WalkSome(buckets, current, end, n) ==
    IF n > 0 /\ WalkGoesOn(current, end)
    THEN <<Entry(buckets, current)>>
         \o WalkSome(buckets, current + BUCKET_WIDTH, end, n - 1)
    ELSE <<>>

\* lines 77-82: the loop, run 32 iterations at a time until one of the runs
\* stops early (this keeps the evaluation shallow; the result is the loop's)
RECURSIVE Walk(_, _, _)
Walk(buckets, current, end) ==
    LET part == WalkSome(buckets, current, end, 32)
    IN IF Len(part) < 32 THEN part
       ELSE part \o Walk(buckets, current + 32 * BUCKET_WIDTH, end)

\* a window that leaves out the event exactly 24 hours old
StartOfExclusive(end) == end - WINDOW + 1

\* line 61
StartOf(end) == end - WINDOW

\* lines 67-84
Series(rws, end) ==
    Walk(FoldRows(rws, [b \in {} |-> 0]), BucketOf(StartOf(end)), end)

\* lines 58-60: connect, cursor, end_time = int(time.time())
GetDataCall(t) ==
    \E n \in Names :
        /\ Begin(t, "get_data", n, 0)
        /\ Pending(t)
        /\ timestamp' = [timestamp EXCEPT ![t] = 0]
        /\ end_time' = [end_time EXCEPT ![t] = clock]
        /\ pc' = [pc EXCEPT ![t] = "data_select"]
        /\ UNCHANGED shared

\* lines 61-84: the SELECT, then the thread-local bucketing and the return
GetDataSelect(t) ==
    /\ pc[t] = "data_select"
    /\ LET fetched == SelectRows(store, argName[t], StartOf(end_time[t]))
       IN /\ rows' = [rows EXCEPT ![t] = fetched]
          /\ result' = [result EXCEPT ![t] = Series(fetched, end_time[t])]
    /\ seen' = [seen EXCEPT ![t] = Len(store)]
    /\ pc' = [pc EXCEPT ![t] = "idle"]
    /\ outcome' = [outcome EXCEPT ![t] = "ok"]
    /\ UNCHANGED <<calls, op, argName, argCount, timestamp, end_time, started>>
    /\ UNCHANGED shared

\* ------------------------------------------------------ the whole program
Next ==
    \/ Tick
    \/ \E t \in Threads : InitDb(t)
    \/ \E t \in Threads : IncrementCall(t)
    \/ \E t \in Threads : IncrementAcquire(t)
    \/ \E t \in Threads : IncrementWrite(t)
    \/ \E t \in Threads : IncrementRelease(t)
    \/ \E t \in Threads : GetNames(t)
    \/ \E t \in Threads : GetDataCall(t)
    \/ \E t \in Threads : GetDataSelect(t)

Spec == Init /\ [][Next]_vars

\* Every thread takes the steps of the call it is in: the interpreter
\* schedules each runnable thread again and again.
ThreadStep(t) ==
    \/ IncrementAcquire(t)
    \/ IncrementWrite(t)
    \/ IncrementRelease(t)
    \/ GetDataSelect(t)

FairSpec == Spec /\ \A t \in Threads : WF_vars(ThreadStep(t))

\* =============================================================== properties
\* thread t's last call was o and has returned normally
Done(t, o) == pc[t] = "idle" /\ op[t] = o /\ outcome[t] = "ok"

\* align(t) = floor(t/300)*300
Align(x) == (x \div 300) * 300

\* the sum of the counts of the rows of st whose index is in S
RECURSIVE SumCounts(_, _)
SumCounts(st, S) ==
    IF S = {} THEN 0
    ELSE LET i == CHOOSE j \in S : TRUE
         IN st[i].count + SumCounts(st, S \ {i})

\* the sum of the counts of a series
TotalOf(series) ==
    SumCounts(series, {k \in 1..Len(series) : series[k].count # 0})

\* the rows of name n among the first k rows of the table, by index
RowsOf(n, k) == {i \in 1..k : store[i].name = n}

\* a before b in lexicographic order of the character codes
LexBefore(a, b) ==
    \E k \in 1..(Len(b)) :
        /\ k <= Len(a) + 1
        /\ \A j \in 1..(k - 1) : a[j] = b[j]
        /\ (k = Len(a) + 1 \/ a[k] < b[k])

\* C1: every series get_data returns has exactly 289 entries, from
\* floor((now-86400)/300)*300 to floor(now/300)*300, each 300 after the one
\* before it.
C1_SeriesShape ==
    \A t \in Threads :
        Done(t, "get_data") =>
            /\ Len(result[t]) = 289
            /\ result[t][1].timestamp = Align(end_time[t] - 86400)
            /\ result[t][289].timestamp = Align(end_time[t])
            /\ \A k \in 1..288 :
                   result[t][k + 1].timestamp = result[t][k].timestamp + 300

\* a series has been returned for a query time on a bucket boundary, with rows
C1_Witness ==
    \E t \in Threads :
        /\ Done(t, "get_data")
        /\ end_time[t] = Align(end_time[t])
        /\ rows[t] # <<>>

\* C2 (as claimed): in a series returned by a get_data that started after all
\* the increments it sees had returned, the count of every bucket is the sum
\* of the counts of all stored events of the name in that bucket.
C2_BucketIsSumOfAll ==
    \A t \in Threads :
        (Done(t, "get_data") /\ seen[t] = started[t]) =>
            \A k \in 1..Len(result[t]) :
                result[t][k].count =
                    SumCounts(store, {i \in RowsOf(argName[t], seen[t]) :
                                        Align(store[i].timestamp) = result[t][k].timestamp})

\* C3 (as claimed): the counts of a returned series add up to the counts of
\* the events its scan returned, the events of the name with
\* timestamp >= now - 86400, also when increments run beside it.
C3_SeriesTotalIsScanTotal ==
    \A t \in Threads :
        Done(t, "get_data") =>
            TotalOf(result[t]) =
                SumCounts(store, {i \in RowsOf(argName[t], seen[t]) :
                                    store[i].timestamp >= end_time[t] - 86400})

\* the threads whose last call is an increment that returned
Acked == {t \in Threads : Done(t, "increment")}

\* C4: no write is lost or duplicated: the table holds one row more for each
\* increment past its commit, the rows of the increments that returned are
\* there, one row each, and get_names on the table has their names.
C4_NoLostWrite ==
    /\ Len(store) = base + acks + Cardinality({t \in Threads : pc[t] = "release"})
    /\ \E f \in [Acked -> (base + 1)..Len(store)] :
           /\ \A t, u \in Acked : f[t] = f[u] => t = u
           /\ \A t \in Acked : store[f[t]] = NewRow(t)
    /\ \A t \in Acked :
           \E k \in 1..Len(SelectNames(store)) : SelectNames(store)[k] = argName[t]

\* every thread has returned from an increment, and all of them started
\* before any of them returned
C4_Witness ==
    /\ Acked = Threads
    /\ \A t \in Threads : started[t] = base
    /\ acks = Cardinality(Threads)

\* C5 (as claimed): every increment in progress returns or raises; so an
\* increment that waits for the lock can take it, or a thread that holds it
\* is on its way to release it.
C5_IncrementReturns ==
    \A t \in Threads :
        pc[t] = "acquire" =>
            \/ ENABLED IncrementAcquire(t)
            \/ \E u \in Threads : pc[u] \in {"write", "release"}

\* C6: a step in which an increment raises leaves the table as it was; a step
\* in which an increment returns leaves the table holding its row; and the
\* table changes only by the row of an increment at its commit.
C6_WriteAllOrNothing ==
    [][ /\ \A t \in Threads :
               (outcome[t] # "raised" /\ outcome'[t] = "raised") => store' = store
        /\ \A t \in Threads :
               (op'[t] = "increment" /\ outcome[t] # "ok" /\ outcome'[t] = "ok") =>
                   \E i \in (started[t] + 1)..Len(store') : store'[i] = NewRow(t)
        /\ store' # store =>
               \E t \in Threads : pc[t] = "write" /\ pc'[t] = "release"
                                  /\ store' = Append(store, NewRow(t)) ]_vars

\* one increment has returned and another has raised
C6_Witness ==
    \E t, u \in Threads :
        /\ op[t] = "increment" /\ pc[t] = "idle" /\ outcome[t] = "raised"
        /\ Done(u, "increment")
        /\ Len(store) = base + 1

\* C7: get_data for a name none of the rows it could see carries returns 289
\* entries, all with count 0.
C7_UnknownNameAllZero ==
    \A t \in Threads :
        (Done(t, "get_data") /\ RowsOf(argName[t], seen[t]) = {}) =>
            /\ Len(result[t]) = 289
            /\ \A k \in 1..Len(result[t]) : result[t][k].count = 0

\* a series has been returned for a name without rows while the table holds
\* rows of another name inside the window
C7_Witness ==
    \E t \in Threads :
        /\ Done(t, "get_data")
        /\ RowsOf(argName[t], seen[t]) = {}
        /\ \E i \in 1..seen[t] : store[i].timestamp >= end_time[t] - 86400

\* C8: get_names returns the names of the rows its SELECT saw, all of them,
\* each once, in ascending lexicographic order.
C8_NamesExactSorted ==
    \A t \in Threads :
        Done(t, "get_names") =>
            /\ {result[t][k] : k \in 1..Len(result[t])}
                   = {store[i].name : i \in 1..seen[t]}
            /\ \A j, k \in 1..Len(result[t]) :
                   j < k => LexBefore(result[t][j], result[t][k])

\* get_names has returned two names, the last of them from the oldest row,
\* which is older than 24 hours, and the first of them from the newest
C8_Witness ==
    \E t \in Threads :
        /\ Done(t, "get_names")
        /\ Len(result[t]) = 2
        /\ seen[t] > base
        /\ store[1].name = result[t][2]
        /\ store[1].timestamp < clock - 86400
        /\ store[seen[t]].name = result[t][1]

\* C9: a get_names that started after an increment returned has its name, and
\* a get_data of that name that started after it and within 24 hours of its
\* timestamp reports, for the bucket of that timestamp, the sum of the rows
\* of that bucket it scanned, the increment's row among them.
C9_ReadAfterWrite ==
    \A t \in Threads :
        /\ Done(t, "get_names") =>
               \A i \in 1..started[t] :
                   \E k \in 1..Len(result[t]) : result[t][k] = store[i].name
        /\ Done(t, "get_data") =>
               \A i \in RowsOf(argName[t], started[t]) :
                   end_time[t] - store[i].timestamp <= 86400 =>
                       /\ i <= seen[t]
                       /\ \E k \in 1..Len(result[t]) :
                              /\ result[t][k].timestamp = Align(store[i].timestamp)
                              /\ result[t][k].count =
                                     SumCounts(store,
                                         {j \in RowsOf(argName[t], seen[t]) :
                                            /\ Align(store[j].timestamp) = Align(store[i].timestamp)
                                            /\ store[j].timestamp >= end_time[t] - 86400})

\* a get_data has returned that started after an increment of its name had
\* returned, over older rows of the same bucket
C9_Witness ==
    \E t \in Threads :
        /\ Done(t, "get_data")
        /\ started[t] > base
        /\ store[started[t]].name = argName[t]
        /\ store[started[t]].count # 0
        /\ end_time[t] - store[started[t]].timestamp <= 86400
        /\ \E j \in 1..base : /\ store[j].name = argName[t]
                              /\ Align(store[j].timestamp) = Align(store[started[t]].timestamp)

\* get_data by t came right after increment(x, 5) by u: u's row was the
\* newest when t started, and t's SELECT saw nothing newer
RightAfter(t, u) ==
    /\ Done(u, "increment") /\ argCount[u] = 5
    /\ Done(t, "get_data") /\ argName[t] = argName[u]
    /\ started[t] > base
    /\ store[started[t]] = NewRow(u)
    /\ seen[t] = started[t]

\* the count the series gives for the bucket of time x, 0 when it has none
CountAt(series, x) ==
    SumCounts(series, {k \in 1..Len(series) : series[k].timestamp = Align(x)})

\* C10 (as claimed): right after increment(x, 5), get_data(x) gives a nonzero
\* count for the bucket of its now, and a total >= 5.
C10_RoundTrip ==
    \A t, u \in Threads :
        RightAfter(t, u) =>
            /\ CountAt(result[t], end_time[t]) # 0
            /\ TotalOf(result[t]) >= 5

\* C10 (amended): the same, when the increment's timestamp and the query's
\* now lie in one bucket and none of the scanned rows has a negative count.
C10_RoundTripSameBucket ==
    \A t, u \in Threads :
        ( /\ RightAfter(t, u)
          /\ Align(timestamp[u]) = Align(end_time[t])
          /\ \A k \in 1..Len(rows[t]) : rows[t][k].count >= 0 ) =>
            /\ CountAt(result[t], end_time[t]) # 0
            /\ TotalOf(result[t]) >= 5

\* the round trip has happened in one bucket, over older rows of the name
C10_Witness ==
    \E t, u \in Threads :
        /\ RightAfter(t, u)
        /\ Align(timestamp[u]) = Align(end_time[t])
        /\ Len(rows[t]) > 1
        /\ \A k \in 1..Len(rows[t]) : rows[t][k].count >= 0

\* the number of increments that have committed their row
Commits == acks + Cardinality({t \in Threads : pc[t] = "release"})

\* C11: a get_names gives the list an earlier get_names gave when no increment
\* has committed since that one ran, whatever calls of get_names came between.
C11_NamesIdempotent ==
    [][ \A t, u \in Threads :
            ( /\ pc[t] = "idle" /\ calls' = calls + 1
              /\ op'[t] = "get_names" /\ seen'[t] = Len(store)
              /\ Done(u, "get_names")
              /\ seen[u] = base + Commits ) =>
                result'[t] = result[u] ]_vars

\* two get_names have returned the same two names from the same rows, those
\* of an earlier run of the process
C11_Witness ==
    \E t, u \in Threads :
        /\ t # u
        /\ Done(t, "get_names") /\ Done(u, "get_names")
        /\ seen[t] = seen[u]
        /\ result[t] = result[u]
        /\ Len(result[t]) = 2

\* C12: an increment that returned has stored a row with the count it was
\* given, whatever its sign, and every count of a returned series is the
\* arithmetic sum of the counts of the scanned rows of that bucket.
C12_AnyCountStoredAndSummed ==
    /\ \A t \in Acked :
           \E i \in (base + 1)..Len(store) :
               /\ store[i].name = argName[t]
               /\ store[i].count = argCount[t]
    /\ \A t \in Threads :
           Done(t, "get_data") =>
               \A k \in 1..Len(result[t]) :
                   result[t][k].count =
                       SumCounts(store,
                           {i \in RowsOf(argName[t], seen[t]) :
                              /\ Align(store[i].timestamp) = result[t][k].timestamp
                              /\ store[i].timestamp >= end_time[t] - 86400})

\* an increment with a negative count has returned and a series shows a
\* bucket that a negative count has brought to 0
C12_Witness ==
    \E t, u \in Threads :
        /\ Done(u, "increment") /\ argCount[u] < 0
        /\ Done(t, "get_data") /\ argName[t] = argName[u]
        /\ Len(rows[t]) = 2
        /\ CountAt(result[t], end_time[t]) = 0

C14_TimestampAtAppend ==
    [][ \A t \in Threads :
            (pc[t] = "write" /\ pc'[t] = "release") =>
                store'[Len(store')].timestamp = clock ]_vars

\* the threads between connecting to the table and closing after the commit
Writing == {t \in Threads : pc[t] \in {"write", "release"}}

\* C15: at most one thread is in the write path of increment.
C15_OneWriter == Cardinality(Writing) <= 1

\* one thread is in the write path while another waits for the lock
C15_Witness ==
    \E t, u \in Threads :
        /\ pc[t] = "write"
        /\ pc[u] = "acquire"
        /\ lock = TRUE

\* C16 (as claimed): when no increment is in progress the lock is free.
C16_LockFreeWhenQuiet ==
    (\A t \in Threads : pc[t] \notin {"acquire", "write", "release"}) => lock = FALSE

\* C17: in every step the rows stored stay as they are, in their places; a
\* step that adds a row is the commit of an increment and adds one row; and
\* the steps of get_names and init_db (a call that runs in one step) and of
\* get_data (its call and its SELECT) leave the table unchanged.
C17_AppendOnly ==
    [][ /\ Len(store') >= Len(store)
        /\ \A i \in 1..Len(store) : store'[i] = store[i]
        /\ Len(store') > Len(store) =>
               /\ Len(store') = Len(store) + 1
               /\ \E t \in Threads : op[t] = "increment" /\ pc[t] = "write"
                                     /\ pc'[t] = "release"
        /\ ( \/ calls' = calls + 1 /\ pc' = pc
             \/ \E t \in Threads : pc[t] = "idle" /\ pc'[t] = "data_select"
             \/ \E t \in Threads : pc[t] = "data_select" /\ pc'[t] = "idle" )
           => store' = store ]_vars

\* rows older than 24 hours and rows of this run are stored, and get_data,
\* get_names and init_db have run since
C17_Witness ==
    /\ base > 0
    /\ Len(store) > base
    /\ store[1].timestamp < clock - 86400
    /\ \E t \in Threads : Done(t, "increment")
    /\ \E t \in Threads : op[t] \in {"get_names", "get_data", "init_db"} /\ outcome[t] = "ok"

\* C18 (as claimed): every count of a returned series is >= 0.
C18_CountsNonNegative ==
    \A t \in Threads :
        Done(t, "get_data") =>
            \A k \in 1..Len(result[t]) : result[t][k].count >= 0

\* C18 (amended): every count of a returned series is >= 0 when none of the
\* scanned rows has a negative count.
C18_CountsNonNegativeOfNonNegative ==
    \A t \in Threads :
        (Done(t, "get_data") /\ \A i \in 1..Len(rows[t]) : rows[t][i].count >= 0) =>
            \A k \in 1..Len(result[t]) : result[t][k].count >= 0

\* a series with a positive bucket and an empty bucket has been returned from
\* scanned rows, none of them negative
C18_Witness ==
    \E t \in Threads :
        /\ Done(t, "get_data")
        /\ rows[t] # <<>>
        /\ \A i \in 1..Len(rows[t]) : rows[t][i].count >= 0
        /\ \E k \in 1..Len(result[t]) : result[t][k].count > 0
        /\ \E k \in 1..Len(result[t]) : result[t][k].count = 0

\* C19: init_db on a file that has the table leaves the file as it is, so the
\* constructor starts from the rows it found, a later init_db leaves the
\* table unchanged, and init_db twice gives what init_db once gives.
C19_InitDbIdempotent ==
    /\ \A db \in DbFiles :
           /\ InitDbOn(db).exists
           /\ db.exists => InitDbOn(db) = db
           /\ InitDbOn(InitDbOn(db)) = InitDbOn(db)
    /\ LET db == [exists |-> TRUE, rows |-> store]
       IN /\ InitDbOn(db).rows = store
          /\ InitDbOn(InitDbOn(db)) = InitDbOn(db)
    /\ \A i \in 1..base : store[i] = OldEvents[i]

\* init_db has run on a table that holds rows of an earlier run and a row of
\* this one
C19_Witness ==
    \E t \in Threads :
        /\ Done(t, "init_db")
        /\ base > 0
        /\ Len(store) > base
====
